---- MODULE Spec2Model ----
(***************************************************************************)
(* Model of src/app.py: the HeartMindSculpture tracker (mood, themes,      *)
(* interaction count, prompt construction with the safety gate), the       *)
(* response post-processing (lighting cues) and the Streamlit script       *)
(* main().                                                                 *)
(*                                                                         *)
(* Text is a sequence of one-character strings, so that lower-casing and   *)
(* substring search are computed character by character as Python does.    *)
(*                                                                         *)
(* src/app.py line 63 lost the header "def add_theme(self, theme):"; the   *)
(* body (lines 63-69) is modelled as the method generate_response calls at *)
(* line 85.                                                                *)
(***************************************************************************)
EXTENDS Integers, Sequences, FiniteSets, TLC

VARIABLES
    hour,               \* last reading of datetime.now().hour
    current_themes,     \* HeartMindSculpture.current_themes
    interaction_count,  \* HeartMindSculpture.interaction_count
    current_mood,       \* HeartMindSculpture.current_mood
    before,             \* the tracker's themes and count as the last call found them
    call,               \* the last call made on the tracker, with its arguments
    potential_themes,   \* generate_response: local potential_themes
    length_instruction, \* generate_response: local length_instruction
    context,            \* generate_response: local context (the prompt)
    requests,           \* client.messages.create calls issued by the last call
    response,           \* text returned by the external model (<<>> if none)
    lighting_cues,      \* main: local lighting_cues
    clean_text,         \* main: local clean_text
    session_state,      \* st.session_state
    api_key,            \* sidebar text_input
    interaction_state,  \* sidebar selectbox
    visitor_count,      \* sidebar slider
    pc                  \* where the last call or script run ended

trackerVars == <<hour, current_themes, interaction_count, current_mood>>
frameVars == <<before, call, potential_themes, length_instruction, context, requests, response>>
postVars == <<lighting_cues, clean_text>>
uiVars == <<session_state, api_key, interaction_state, visitor_count>>
vars == <<trackerVars, frameVars, postVars, uiVars, pc>>

----------------------------------------------------------------------------
(* Bounds of the model                                                     *)

MaxCount == 3      \* generate_response calls on one tracker
MaxFrags == 2      \* fragments concatenated into one input text
MaxTextLen == 4    \* characters of a response text in the post-processing runs
MaxTurns == 2      \* visitor turns of one UI session

----------------------------------------------------------------------------
(* Text                                                                    *)

Star == "*"
NL == "\n"

Range(s) == {s[i] : i \in 1..Len(s)}

UpperCase == <<"A","B","C","D","E","F","G","H","I","J","K","L","M",
               "N","O","P","Q","R","S","T","U","V","W","X","Y","Z">>
LowerCase == <<"a","b","c","d","e","f","g","h","i","j","k","l","m",
               "n","o","p","q","r","s","t","u","v","w","x","y","z">>

\* str.lower() on one character
LowerChar(c) ==
    IF \E i \in 1..Len(UpperCase) : UpperCase[i] = c
    THEN LowerCase[CHOOSE i \in 1..Len(UpperCase) : UpperCase[i] = c]
    ELSE c

\* str.lower()
Lower(text) == [i \in 1..Len(text) |-> LowerChar(text[i])]

\* keyword in text
IsSubstring(keyword, text) ==
    \E i \in 0..(Len(text) - Len(keyword)) :
        SubSeq(text, i + 1, i + Len(keyword)) = keyword

\* any(keyword in text for keyword in keywords)
AnyKeywordIn(keywords, text) ==
    \E i \in 1..Len(keywords) : IsSubstring(keywords[i], text)

----------------------------------------------------------------------------
(* Mood                                                                    *)

Hours == 0..23

GetCurrentMoodGap(h) ==
    IF 6 <= h /\ h < 10 THEN "contemplative_dawn"
    ELSE IF 10 <= h /\ h < 16 THEN "receptive_peak"
    ELSE IF 16 <= h /\ h < 19 THEN "reflective_afternoon"
    ELSE IF 19 <= h /\ h < 2 THEN "intimate_evening"
    ELSE IF 2 <= h /\ h < 6 THEN "philosophical_night"
    ELSE "None"

GetCurrentMood(h) ==
    IF 6 <= h /\ h < 10 THEN "contemplative_dawn"
    ELSE IF 10 <= h /\ h < 16 THEN "receptive_peak"
    ELSE IF 16 <= h /\ h < 19 THEN "reflective_afternoon"
    ELSE IF 19 <= h /\ h < 2 THEN "intimate_evening"
    ELSE "philosophical_night"

mood_contexts(mood) ==
    CASE mood = "contemplative_dawn" ->
           "You're feeling fresh and hopeful as the day begins. The sunrise paints everything golden."
      [] mood = "receptive_peak" ->
           "You're in your most open, receptive state. The day is peaceful, with few visitors around."
      [] mood = "reflective_afternoon" ->
           "You're processing the day's interactions thoughtfully. Energy is building as evening approaches."
      [] mood = "intimate_evening" ->
           "You feel warm and connected as the playa comes alive with lights and music."
      [] mood = "philosophical_night" ->
           "Under these infinite stars, you're deeply contemplative and wise."
      [] OTHER -> ""

----------------------------------------------------------------------------
(* Themes                                                                  *)

ThemeCapacity == 5

AddThemeKeepFirst(themes, theme) ==
    LET added == IF theme \notin Range(themes) THEN Append(themes, theme) ELSE themes
    IN  IF Len(added) > ThemeCapacity
        THEN SubSeq(added, 1, ThemeCapacity)
        ELSE added

\* add_theme on the list `themes`
AddTheme(themes, theme) ==
    LET added == IF theme \notin Range(themes) THEN Append(themes, theme) ELSE themes
    IN  IF Len(added) > ThemeCapacity
        THEN SubSeq(added, Len(added) - ThemeCapacity + 1, Len(added))
        ELSE added

\* for theme in potential_themes: self.add_theme(theme)
RECURSIVE AddThemes(_, _)
AddThemes(themes, new) ==
    IF new = <<>> THEN themes
    ELSE AddThemes(AddTheme(themes, Head(new)), Tail(new))

theme_keywords == <<
    [theme |-> "attachment", keywords |-> <<
      <<"l","o","v","e">>,
      <<"r","e","l","a","t","i","o","n","s","h","i","p">>,
      <<"p","a","r","t","n","e","r">>,
      <<"d","a","t","i","n","g">>,
      <<"f","a","m","i","l","y">>,
      <<"p","a","r","e","n","t">> >>],
    [theme |-> "self_worth", keywords |-> <<
      <<"e","n","o","u","g","h">>,
      <<"w","o","r","t","h","y">>,
      <<"d","e","s","e","r","v","e">>,
      <<"v","a","l","u","e">>,
      <<"c","o","n","f","i","d","e","n","c","e">> >>],
    [theme |-> "healing", keywords |-> <<
      <<"h","e","a","l","i","n","g">>,
      <<"t","h","e","r","a","p","y">>,
      <<"g","r","o","w","t","h">>,
      <<"c","h","a","n","g","e">>,
      <<"b","e","t","t","e","r">> >>],
    [theme |-> "creativity", keywords |-> <<
      <<"a","r","t">>,
      <<"c","r","e","a","t","e">>,
      <<"m","a","k","i","n","g">>,
      <<"b","u","i","l","d">>,
      <<"e","x","p","r","e","s","s">> >>],
    [theme |-> "community", keywords |-> <<
      <<"f","r","i","e","n","d","s">>,
      <<"p","e","o","p","l","e">>,
      <<"t","o","g","e","t","h","e","r">>,
      <<"a","l","o","n","e">>,
      <<"c","o","n","n","e","c","t","i","o","n">> >>] >>

\* the loop of _extract_themes from table entry i on, over the lower-cased text
RECURSIVE ExtractFrom(_, _)
ExtractFrom(i, text_lower) ==
    IF i > Len(theme_keywords) THEN <<>>
    ELSE IF AnyKeywordIn(theme_keywords[i].keywords, text_lower)
         THEN <<theme_keywords[i].theme>> \o ExtractFrom(i + 1, text_lower)
         ELSE ExtractFrom(i + 1, text_lower)

RECURSIVE ExtractFirstFrom(_, _)
ExtractFirstFrom(i, text_lower) ==
    IF i > Len(theme_keywords) THEN <<>>
    ELSE IF AnyKeywordIn(theme_keywords[i].keywords, text_lower)
         THEN <<theme_keywords[i].theme>>
         ELSE ExtractFirstFrom(i + 1, text_lower)

ExtractThemesFirstOnly(text) == ExtractFirstFrom(1, Lower(text))

\* _extract_themes
ExtractThemes(text) == ExtractFrom(1, Lower(text))

----------------------------------------------------------------------------
(* Prompt construction                                                     *)

ShortInstruction == "Keep response SHORT: 2-3 sentences maximum. This is first contact."
MediumInstruction == "Medium length response: 3-4 sentences. Building engagement."
LongInstruction == "Can be longer and deeper: 4-6 sentences. Sustained engagement."

LengthInstructionStrict(visitor_interaction_count) ==
    IF visitor_interaction_count = 1 THEN ShortInstruction
    ELSE IF visitor_interaction_count < 3 THEN MediumInstruction
    ELSE LongInstruction

\* generate_response: the length tier
LengthInstruction(visitor_interaction_count) ==
    IF visitor_interaction_count = 1 THEN ShortInstruction
    ELSE IF visitor_interaction_count <= 3 THEN MediumInstruction
    ELSE LongInstruction

safety_keywords == <<
      <<"k","i","l","l"," ","m","y","s","e","l","f">>,
      <<"h","u","r","t"," ","m","y","s","e","l","f">>,
      <<"e","n","d"," ","i","t"," ","a","l","l">>,
      <<"s","u","i","c","i","d","e">>,
      <<"w","a","n","t"," ","t","o"," ","d","i","e">>,
      <<"s","h","o","u","l","d"," ","j","u","s","t"," ","d","i","s","a","p","p","e","a","r">>,
      <<"n","o","t"," ","e","x","i","s","t">>,
      <<"w","o","r","l","d"," ","w","o","u","l","d"," ","b","e"," ","b","e","t","t","e","r"," ","w","i","t","h","o","u","t"," ","m","e">>,
      <<"n","o","b","o","d","y"," ","w","o","u","l","d"," ","m","i","s","s"," ","m","e">>,
      <<"d","o","n","'","t"," ","w","a","n","t"," ","t","o"," ","b","e"," ","h","e","r","e">>,
      <<"c","a","n","'","t"," ","g","o"," ","o","n">> >>

IsSafetyConcernCaseSensitive(user_input) == AnyKeywordIn(safety_keywords, user_input)

\* _build_context: the safety check
IsSafetyConcern(user_input) == AnyKeywordIn(safety_keywords, Lower(user_input))

attachment_words == << <<"r","e","l","a","t","i","o","n","s","h","i","p">>, <<"l","o","v","e">>,
                       <<"p","a","r","t","n","e","r">>, <<"f","a","m","i","l","y">> >>
worth_words == << <<"w","o","r","t","h">>, <<"d","e","s","e","r","v","e">>,
                  <<"e","n","o","u","g","h">>, <<"v","a","l","u","e">> >>
burn_words == << <<"b","u","r","n">>, <<"b","u","r","n","i","n","g"," ","m","a","n">>,
                 <<"p","l","a","y","a">> >>

\* _build_context: the knowledge_base entries put in the prompt, by key
RelevantKnowledge(user_input) ==
    (IF AnyKeywordIn(attachment_words, Lower(user_input)) THEN <<"attachment">> ELSE <<>>)
    \o (IF AnyKeywordIn(worth_words, Lower(user_input)) THEN <<"attachment">> ELSE <<>>)
    \o (IF AnyKeywordIn(burn_words, Lower(user_input)) THEN <<"burningman">> ELSE <<>>)
    \o <<"identity", "voice">>

----------------------------------------------------------------------------
(* Response post-processing                                                *)

\* index of the first "*" after position i, 0 when there is none
NextStar(text, i) ==
    IF \E j \in (i + 1)..Len(text) : text[j] = Star
    THEN CHOOSE j \in (i + 1)..Len(text) :
             /\ text[j] = Star
             /\ \A k \in (i + 1)..(j - 1) : text[k] # Star
    ELSE 0

\* re.findall(r'\*(.*?)\*', text) from position i on: "." does not match "\n"
RECURSIVE FindAllFrom(_, _)
FindAllFrom(text, i) ==
    IF i > Len(text) THEN <<>>
    ELSE LET j == NextStar(text, i)
         IN  IF text[i] = Star /\ j # 0 /\ NL \notin Range(SubSeq(text, i + 1, j - 1))
             THEN <<SubSeq(text, i + 1, j - 1)>> \o FindAllFrom(text, j + 1)
             ELSE FindAllFrom(text, i + 1)

\* extract_lighting_cues
ExtractLightingCues(text) == FindAllFrom(text, 1)

\* re.sub(r'\*[^*]*\*', '', text) from position i on: [^*] matches "\n" too
RECURSIVE SubFrom(_, _)
SubFrom(text, i) ==
    IF i > Len(text) THEN <<>>
    ELSE LET j == NextStar(text, i)
         IN  IF text[i] = Star /\ j # 0
             THEN SubFrom(text, j + 1)
             ELSE <<text[i]>> \o SubFrom(text, i + 1)

Whitespace == {" ", NL, "\t", "\r"}

RECURSIVE LStrip(_)
LStrip(s) == IF s # <<>> /\ Head(s) \in Whitespace THEN LStrip(Tail(s)) ELSE s

RECURSIVE RStrip(_)
RStrip(s) ==
    IF s # <<>> /\ s[Len(s)] \in Whitespace THEN RStrip(SubSeq(s, 1, Len(s) - 1)) ELSE s

\* str.strip()
Strip(s) == RStrip(LStrip(s))

\* clean_response_text
CleanResponseText(text) == Strip(SubFrom(text, 1))

----------------------------------------------------------------------------
(* Inputs                                                                  *)

MyBike == <<"M","y"," ","b","i","k","e"," ","g","o","t"," ","s","t","o","l","e","n">>

example_prompts == <<
    <<"I"," ","f","e","e","l"," ","s","o"," ","l","o","s","t">>,
    MyBike,
    <<"I","'","m"," ","o","v","e","r","w","h","e","l","m","e","d"," ","a","t"," ","m","y"," ","f","i","r","s","t"," ","B","u","r","n">>,
    <<"I"," ","f","e","l","l"," ","i","n"," ","l","o","v","e"," ","w","i","t","h"," ","s","o","m","e","o","n","e"," ","I"," ","c","a","n","'","t"," ","h","a","v","e">>,
    <<"P","u","r","p","l","e"," ","m","o","n","k","e","y"," ","T","u","e","s","d","a","y"," ","e","l","e","p","h","a","n","t">>,
    <<"E","v","e","r","y","o","n","e"," ","s","e","e","m","s"," ","t","o"," ","b","e"," ","c","o","n","n","e","c","t","i","n","g"," ","b","u","t"," ","m","e">> >>

\* pieces of visitor text; concatenations give crisis phrases across pieces
\* ("want to " + "Die"), keywords inside other words ("he" + "art") and
\* inputs that are a crisis phrase and name a theme ("Alone " + "Suicide")
Fragments == {
    <<"w","a","n","t"," ","t","o"," ">>,
    <<"D","i","e">>,
    <<"h","e">>,
    <<"a","r","t">>,
    <<"A","l","o","n","e"," ">>,
    <<"S","u","i","c","i","d","e">>,
    <<"l","o","v","e">> }

RECURSIVE Concats(_)
Concats(n) ==
    IF n = 0 THEN {<<>>}
    ELSE LET shorter == Concats(n - 1)
         IN  shorter \cup {s \o f : s \in shorter, f \in Fragments}

TextInputs == Concats(MaxFrags) \cup {MyBike}

AloneSuicide == <<"A","l","o","n","e"," ">> \o <<"S","u","i","c","i","d","e">>
LoveArt == <<"l","o","v","e">> \o <<"a","r","t">>
\* a crisis phrase in an input that names two themes
LoveAloneSuicide == <<"l","o","v","e">> \o <<" ">> \o AloneSuicide

ThemeVocabulary == {theme_keywords[i].theme : i \in 1..Len(theme_keywords)}

\* add_theme takes any label: the vocabulary and one label outside it
ThemeLabels == ThemeVocabulary \cup {"grief"}

InteractionStates == <<"first_contact", "active", "repeat_visitor">>
SliderMin == 1
SliderMax == 10
VisitorCounts == SliderMin..SliderMax

\* what client.messages.create does: raise, or return a text
Raised == [ok |-> FALSE]
Returned(text) == [ok |-> TRUE, text |-> text]
GlowOk == <<"*","g","l","o","w","*"," ","o","k">>
ApiResults == {Raised, Returned(GlowOk)}

ResponseAlphabet == {Star, "a", " ", NL}

RECURSIVE Texts(_)
Texts(n) ==
    IF n = 0 THEN {<<>>}
    ELSE LET shorter == Texts(n - 1)
         IN  shorter \cup {Append(s, c) : s \in shorter, c \in ResponseAlphabet}

\* st.session_state: the keys it holds and their values (a key not held reads as <<>>)
NoSession == [keys |-> {}, messages |-> <<>>, example_prompt |-> <<>>]

----------------------------------------------------------------------------
(* The text functions tabulated over the inputs of the model: each is      *)
(* computed once per input text and looked up by the operations below      *)

sad_words == << <<"s","a","d">>, <<"l","o","n","e","l","y">>, <<"h","u","r","t">>,
                <<"c","r","y">>, <<"d","e","p","r","e","s","s","e","d">> >>
angry_words == << <<"a","n","g","r","y">>, <<"m","a","d">>, <<"p","i","s","s","e","d">>,
                  <<"f","u","r","i","o","u","s">> >>
happy_words == << <<"h","a","p","p","y">>, <<"a","m","a","z","i","n","g">>, <<"l","o","v","e">>,
                  <<"e","x","c","i","t","e","d">>, <<"w","o","n","d","e","r","f","u","l">> >>
confused_words == << <<"l","o","s","t">>, <<"c","o","n","f","u","s","e","d">>,
                     <<"d","o","n","'","t"," ","k","n","o","w">> >>

\* main: the emotional tone detected in the prompt
DetectTone(prompt) ==
    IF AnyKeywordIn(sad_words, Lower(prompt)) THEN "sad"
    ELSE IF AnyKeywordIn(angry_words, Lower(prompt)) THEN "angry"
    ELSE IF AnyKeywordIn(happy_words, Lower(prompt)) THEN "happy"
    ELSE IF AnyKeywordIn(confused_words, Lower(prompt)) THEN "confused"
    ELSE "neutral"

AllInputs == TextInputs \cup Range(example_prompts) \cup {AloneSuicide, LoveArt, LoveAloneSuicide}

\* _extract_themes(t)
ThemesOf == [t \in AllInputs |-> ExtractThemes(t)]

\* the safety check of _build_context on t
SafetyOf == [t \in AllInputs |-> IsSafetyConcern(t)]

\* the knowledge selection of _build_context on t
KnowledgeOf == [t \in AllInputs |-> RelevantKnowledge(t)]

\* the emotional tone main detects in t
ToneOf == [t \in AllInputs |-> DetectTone(t)]

NoContext == [kind |-> "none"]

\* the fixed safety template: its only variable part is the user input
SafetyTemplate(user_input) == [kind |-> "safety", user_input |-> user_input]

\* _build_context, on the tracker fields it reads
BuildContext(mood, count, themes, state, emotional_tone, length, user_input) ==
    IF SafetyOf[user_input]
    THEN SafetyTemplate(user_input)
    ELSE [kind |-> "normal",
          interaction_state |-> state,
          mood_context |-> mood_contexts(mood),
          interaction_count |-> count,
          current_themes |-> IF themes # <<>> THEN themes ELSE <<"none yet">>,
          length_instruction |-> length,
          relevant_knowledge |-> KnowledgeOf[user_input],
          emotional_tone |-> emotional_tone]


----------------------------------------------------------------------------
(* One tracker: the calls made on a HeartMindSculpture instance            *)

uiIdle ==
    /\ session_state = NoSession
    /\ api_key = ""
    /\ interaction_state = InteractionStates[1]
    /\ visitor_count = SliderMin

\* __init__ with the clock reading h
Constructed(h) ==
    /\ hour = h
    /\ current_themes = <<>>
    /\ interaction_count = 0
    /\ current_mood = GetCurrentMood(h)

\* the tracker fields a call finds
Fields(themes, count) == [current_themes |-> themes, interaction_count |-> count]

noFrame ==
    /\ before = Fields(current_themes, interaction_count)
    /\ potential_themes = <<>>
    /\ length_instruction = ""
    /\ context = NoContext
    /\ requests = 0
    /\ response = <<>>
    /\ lighting_cues = <<>>
    /\ clean_text = <<>>

\* add_theme(theme)
AddThemeCall(theme) ==
    /\ current_themes' = AddTheme(current_themes, theme)
    /\ before' = Fields(current_themes, interaction_count)
    /\ call' = [op |-> "add_theme", theme |-> theme]
    /\ pc' = "returned"
    /\ potential_themes' = <<>>
    /\ length_instruction' = ""
    /\ context' = NoContext
    /\ requests' = 0
    /\ response' = <<>>
    /\ UNCHANGED <<hour, interaction_count, current_mood>>
    /\ UNCHANGED <<postVars, uiVars>>

ThemesAfterGated(themes, user_input) ==
    IF SafetyOf[user_input] THEN themes
    ELSE AddThemes(themes, ThemesOf[user_input])

\* generate_response: current_themes after the theme loop
ThemesAfter(themes, user_input) == AddThemes(themes, ThemesOf[user_input])

\* generate_response on a tracker holding `themes` and `count`, the clock reading
\* h: the fields it assigns and its locals up to the external call
Generated(themes, count, h, state, user_input, emotional_tone, vc) ==
    LET themes1 == ThemesAfter(themes, user_input)
        length == LengthInstruction(vc)
    IN  [interaction_count |-> count + 1,
         current_mood |-> GetCurrentMood(h),
         potential_themes |-> ThemesOf[user_input],
         current_themes |-> themes1,
         length_instruction |-> length,
         context |-> BuildContext(GetCurrentMood(h), count + 1, themes1,
                                  state, emotional_tone, length, user_input)]

\* generate_response(state, user_input, emotional_tone, vc), the clock reading h,
\* the external call ending as res
GenerateResponse(h, state, user_input, emotional_tone, vc, res) ==
    LET g == Generated(current_themes, interaction_count, h,
                       state, user_input, emotional_tone, vc)
    IN  /\ interaction_count < MaxCount
        /\ before' = Fields(current_themes, interaction_count)
        /\ interaction_count' = g.interaction_count
        /\ hour' = h
        /\ current_mood' = g.current_mood
        /\ potential_themes' = g.potential_themes
        /\ current_themes' = g.current_themes
        /\ length_instruction' = g.length_instruction
        /\ context' = g.context
        /\ requests' = 1
        /\ response' = IF res.ok THEN res.text ELSE <<>>
        /\ pc' = IF res.ok THEN "returned" ELSE "raised"
        /\ call' = [op |-> "generate_response",
                    interaction_state |-> state,
                    user_input |-> user_input,
                    emotional_tone |-> emotional_tone,
                    visitor_interaction_count |-> vc]
        /\ UNCHANGED <<postVars, uiVars>>

SculptureHours == {22}
SculptureInputs == {MyBike, LoveAloneSuicide, LoveArt}

InitSculpture ==
    /\ \E h \in SculptureHours : Constructed(h)
    /\ call = [op |-> "__init__"]
    /\ noFrame
    /\ uiIdle
    /\ pc = "returned"

NextSculpture ==
    \/ \E theme \in ThemeLabels : AddThemeCall(theme)
    \/ \E h \in SculptureHours, user_input \in SculptureInputs, res \in ApiResults :
           GenerateResponse(h, "active", user_input, "neutral", 1, res)

\* any sequence of add_theme and generate_response calls on one tracker
SpecSculpture == InitSculpture /\ [][NextSculpture]_vars

InitCalls ==
    /\ \E h \in Hours : Constructed(h)
    /\ call = [op |-> "__init__"]
    /\ noFrame
    /\ uiIdle
    /\ pc = "returned"

NextCalls ==
    \E h \in Hours, vc \in VisitorCounts, user_input \in {MyBike, LoveArt} :
        GenerateResponse(h, "active", user_input, "neutral", vc, Returned(GlowOk))

\* generate_response at every hour of the day and every slider value
SpecCalls == InitCalls /\ [][NextCalls]_vars

----------------------------------------------------------------------------
(* The text functions called once on drawn arguments                       *)

TextHours == {3, 8, 12, 17, 21}
TextThemes == {<<>>, <<"healing", "community">>}
EmotionalTones == {"neutral", "sad"}

BuildContextCalls ==
    [op : {"_build_context"},
     interaction_state : {InteractionStates[1], InteractionStates[2]},
     emotional_tone : EmotionalTones,
     length_instruction : {ShortInstruction, MediumInstruction, LongInstruction},
     user_input : TextInputs]

ExtractThemesCalls == [op : {"_extract_themes"}, text : TextInputs]

\* a tracker in a state generate_response leaves it in, and a call about to be made
InitText ==
    /\ \E h \in TextHours : hour = h /\ current_mood = GetCurrentMood(h)
    /\ current_themes \in TextThemes
    /\ interaction_count \in 1..MaxCount
    /\ call \in BuildContextCalls \cup ExtractThemesCalls
    /\ noFrame
    /\ uiIdle
    /\ pc = "called"

\* _build_context(interaction_state, emotional_tone, length_instruction, user_input)
BuildContextReturn ==
    /\ pc = "called"
    /\ call.op = "_build_context"
    /\ context' = BuildContext(current_mood, interaction_count, current_themes,
                               call.interaction_state, call.emotional_tone,
                               call.length_instruction, call.user_input)
    /\ pc' = "returned"
    /\ UNCHANGED <<trackerVars, before, call, potential_themes, length_instruction,
                   requests, response, postVars, uiVars>>

\* _extract_themes(text)
ExtractThemesReturn ==
    /\ pc = "called"
    /\ call.op = "_extract_themes"
    /\ potential_themes' = ThemesOf[call.text]
    /\ pc' = "returned"
    /\ UNCHANGED <<trackerVars, before, call, length_instruction, context,
                   requests, response, postVars, uiVars>>

NextText == BuildContextReturn \/ ExtractThemesReturn

SpecText == InitText /\ [][NextText]_vars

\* a response text about to be post-processed
InitLighting ==
    /\ Constructed(12)
    /\ call = [op |-> "post_process"]
    /\ before = Fields(<<>>, 0)
    /\ potential_themes = <<>>
    /\ length_instruction = ""
    /\ context = NoContext
    /\ requests = 1
    /\ response \in Texts(MaxTextLen)
    /\ lighting_cues = <<>>
    /\ clean_text = <<>>
    /\ uiIdle
    /\ pc = "called"

\* main: lighting_cues = extract_lighting_cues(response);
\*       clean_text = clean_response_text(response)
PostProcess ==
    /\ pc = "called"
    /\ call.op = "post_process"
    /\ lighting_cues' = ExtractLightingCues(response)
    /\ clean_text' = CleanResponseText(response)
    /\ pc' = "returned"
    /\ UNCHANGED <<trackerVars, frameVars, uiVars>>

SpecLighting == InitLighting /\ [][PostProcess]_vars

----------------------------------------------------------------------------
(* main(): one Streamlit session. Every event (a widget change, a chat     *)
(* submission, a button click, a rerun request) runs the script once, top  *)
(* to bottom; only st.session_state and the widget values outlive a run.   *)

MainHours == {9, 21}
ChatPrompts == {MyBike, LoveAloneSuicide}
ApiKeys == {"", "sk-key"}
\* the slider positions the operator uses: both ends and the tier boundaries
MainVisitorCounts == {SliderMin, 3, 4, SliderMax}

UserRecord(prompt) == [role |-> "user", content |-> prompt]

AssistantRecord(text) ==
    [role |-> "assistant",
     content |-> CleanResponseText(text),
     lighting |-> ExtractLightingCues(text)]

MessagesAfterTurnShowingError(messages, prompt, res) ==
    IF res.ok
    THEN Append(Append(messages, UserRecord(prompt)), AssistantRecord(res.text))
    ELSE Append(Append(messages, UserRecord(prompt)), AssistantRecord(<<>>))

\* main: st.session_state.messages after a chat turn whose external call ended as
\* res: the assistant record is appended after generate_response returned
MessagesAfterTurn(messages, prompt, res) ==
    IF res.ok
    THEN Append(Append(messages, UserRecord(prompt)), AssistantRecord(res.text))
    ELSE Append(messages, UserRecord(prompt))

UserTurns(messages) == Len(SelectSeq(messages, LAMBDA m : m.role = "user"))

\* the state after the first script run of a session: the key field is empty and
\* the script stopped at st.stop()
InitMain ==
    /\ hour \in MainHours
    /\ current_themes = <<>>
    /\ interaction_count = 0
    /\ current_mood = "None"
    /\ call = [op |-> "none"]
    /\ noFrame
    /\ uiIdle
    /\ pc = "stopped"

\* one run of main() with the widget values key, state and vc, the chat input
\* prompt (<<>>: none), the example button clicked (0: none), the clock reading h
\* and the external call, if made, ending as res
ScriptRun(key, state, vc, prompt, clicked, h, res) ==
    LET turn == prompt # <<>>
        raised == turn /\ ~res.ok
        g == Generated(<<>>, 0, h, state, prompt, ToneOf[prompt], vc)
        keys1 == session_state.keys \cup {"messages"}
        keys2 == IF clicked # 0 THEN keys1 \cup {"example_prompt"} ELSE keys1
    IN  /\ api_key' = key
        /\ interaction_state' = state
        /\ visitor_count' = vc
        /\ hour' = h
        /\ IF key = ""
           THEN \* st.stop() in the sidebar: no tracker, nothing below runs
                /\ current_themes' = <<>>
                /\ interaction_count' = 0
                /\ current_mood' = "None"
                /\ call' = [op |-> "none"]
                /\ session_state' = session_state
                /\ pc' = "stopped"
           ELSE \* sculpture = HeartMindSculpture(api_key), then the chat turn
                /\ current_themes' = IF turn THEN g.current_themes ELSE <<>>
                /\ interaction_count' = IF turn THEN g.interaction_count ELSE 0
                /\ current_mood' = GetCurrentMood(h)
                /\ call' = IF turn
                           THEN [op |-> "generate_response",
                                 interaction_state |-> state,
                                 user_input |-> prompt,
                                 emotional_tone |-> ToneOf[prompt],
                                 visitor_interaction_count |-> vc]
                           ELSE [op |-> "__init__"]
                /\ session_state' =
                       IF raised
                       THEN [session_state EXCEPT
                                !.keys = keys1,
                                !.messages = MessagesAfterTurn(@, prompt, res)]
                       ELSE [keys |-> keys2,
                             messages |-> IF turn
                                          THEN MessagesAfterTurn(session_state.messages,
                                                                 prompt, res)
                                          ELSE session_state.messages,
                             example_prompt |-> IF clicked # 0
                                                THEN example_prompts[clicked]
                                                ELSE session_state.example_prompt]
                /\ pc' = IF raised THEN "raised"
                         ELSE IF "example_prompt" \in keys2 THEN "rerun"
                         ELSE "done"
        /\ before' = Fields(<<>>, 0)
        /\ potential_themes' = IF key # "" /\ turn THEN g.potential_themes ELSE <<>>
        /\ length_instruction' = IF key # "" /\ turn THEN g.length_instruction ELSE ""
        /\ context' = IF key # "" /\ turn THEN g.context ELSE NoContext
        /\ requests' = IF key # "" /\ turn THEN 1 ELSE 0
        /\ response' = IF key # "" /\ turn /\ res.ok THEN res.text ELSE <<>>
        /\ lighting_cues' = IF key # "" /\ turn /\ res.ok
                            THEN ExtractLightingCues(res.text) ELSE <<>>
        /\ clean_text' = IF key # "" /\ turn /\ res.ok
                         THEN CleanResponseText(res.text) ELSE <<>>

\* the operator edits the API key field
EnterApiKey(key, h) ==
    /\ key # api_key
    /\ ScriptRun(key, interaction_state, visitor_count, <<>>, 0, h, Raised)

\* the operator picks an interaction state (the selectbox is drawn below st.stop())
SelectState(state, h) ==
    /\ pc # "stopped"
    /\ state # interaction_state
    /\ ScriptRun(api_key, state, visitor_count, <<>>, 0, h, Raised)

\* the operator moves the visitor-count slider
SlideVisitorCount(vc, h) ==
    /\ pc # "stopped"
    /\ vc # visitor_count
    /\ ScriptRun(api_key, interaction_state, vc, <<>>, 0, h, Raised)

\* the operator submits a chat prompt: a visitor turn
ChatSubmit(prompt, h, res) ==
    /\ pc # "stopped"
    /\ UserTurns(session_state.messages) < MaxTurns
    /\ ScriptRun(api_key, interaction_state, visitor_count, prompt, 0, h, res)

\* the operator clicks an example button (drawn only by a run that got that far)
ClickExample(i, h) ==
    /\ pc \in {"done", "rerun"}
    /\ ScriptRun(api_key, interaction_state, visitor_count, <<>>, i, h, Raised)

\* the run st.rerun() asked for
Rerun(h) ==
    /\ pc = "rerun"
    /\ ScriptRun(api_key, interaction_state, visitor_count, <<>>, 0, h, Raised)

NextMain ==
    \E h \in MainHours :
        \/ \E key \in ApiKeys : EnterApiKey(key, h)
        \/ \E i \in 1..Len(InteractionStates) : SelectState(InteractionStates[i], h)
        \/ \E vc \in MainVisitorCounts : SlideVisitorCount(vc, h)
        \/ \E prompt \in ChatPrompts, res \in ApiResults : ChatSubmit(prompt, h, res)
        \/ \E i \in 1..Len(example_prompts) : ClickExample(i, h)
        \/ Rerun(h)

SpecMain == InitMain /\ [][NextMain]_vars

\* st.rerun() at line 408 ends the run and starts the next one at once, without
\* waiting for the operator: a requested rerun is always taken
SpecMainFair == SpecMain /\ WF_vars(\E h \in MainHours : Rerun(h))

----------------------------------------------------------------------------
(* What the claims say of a text, stated over character positions          *)

\* keyword stands at position p of the lower-cased text
OccursAt(keyword, text, p) ==
    /\ p + Len(keyword) - 1 <= Len(text)
    /\ \A j \in 1..Len(keyword) : LowerChar(text[p + j - 1]) = keyword[j]

Occurs(keyword, text) == \E p \in 1..Len(text) : OccursAt(keyword, text, p)

\* the input holds at least one configured crisis phrase
CrisisPhraseIn == [t \in AllInputs |->
    \E i \in 1..Len(safety_keywords) : Occurs(safety_keywords[i], t)]

\* the table entries (by index) that have a keyword in the input
EntriesNamedIn == [t \in AllInputs |->
    {i \in 1..Len(theme_keywords) :
        \E k \in 1..Len(theme_keywords[i].keywords) :
            Occurs(theme_keywords[i].keywords[k], t)}]

\* the elements of the index set S as themes, in table order from entry i on
RECURSIVE InTableOrder(_, _)
InTableOrder(S, i) ==
    IF i > Len(theme_keywords) THEN <<>>
    ELSE (IF i \in S THEN <<theme_keywords[i].theme>> ELSE <<>>) \o InTableOrder(S, i + 1)

\* the last n elements of s, all of s when it has no more than n
LastN(s, n) == IF Len(s) > n THEN SubSeq(s, Len(s) - n + 1, Len(s)) ELSE s

\* one theme added as C2 states it: a theme already listed changes nothing,
\* a new one goes last and the oldest leaves a list that held 5
OneAdded(themes, t) ==
    IF t \in Range(themes) THEN themes ELSE LastN(Append(themes, t), 5)

RECURSIVE AllAdded(_, _)
AllAdded(themes, ts) ==
    IF ts = <<>> THEN themes ELSE AllAdded(OneAdded(themes, Head(ts)), Tail(ts))

----------------------------------------------------------------------------
(* C2: current_themes never holds more than 5 entries; add_theme of a      *)
(* theme not in a list of 5 removes the oldest entry and keeps the other   *)
(* four in order, followed by the new theme; generate_response does the    *)
(* same for each theme it adds.                                            *)
C2_ThemesBounded ==
    /\ Len(current_themes) <= 5
    /\ (call.op = "add_theme" /\ Len(before.current_themes) = 5
            /\ call.theme \notin Range(before.current_themes))
        => current_themes = SubSeq(before.current_themes, 2, 5) \o <<call.theme>>
    /\ call.op = "generate_response"
        => current_themes = AllAdded(before.current_themes, potential_themes)

\* add_theme has just put a new theme on a full list
C2_Witness ==
    /\ call.op = "add_theme"
    /\ Len(before.current_themes) = 5
    /\ call.theme \notin Range(before.current_themes)
    /\ current_themes[5] = call.theme
    /\ before.current_themes[1] \notin Range(current_themes)

(* C10: a turn whose input triggers the safety gate still counts the       *)
(* interaction and adds every theme named in the input, as a normal turn   *)
(* does; only the prompt is the safety template.                           *)
C10_GatedTurnUpdatesTracker ==
    (call.op = "generate_response" /\ CrisisPhraseIn[call.user_input])
    => /\ context = SafetyTemplate(call.user_input)
       /\ interaction_count = before.interaction_count + 1
       /\ LET named == InTableOrder(EntriesNamedIn[call.user_input], 1)
          IN  /\ Range(before.current_themes) \subseteq ThemeVocabulary
                     => Range(named) \subseteq Range(current_themes)
              /\ current_themes = AllAdded(before.current_themes, named)

\* a crisis input that names a theme has been processed and the theme was new
C10_Witness ==
    /\ call.op = "generate_response"
    /\ CrisisPhraseIn[call.user_input]
    /\ context.kind = "safety"
    /\ "community" \in Range(current_themes)
    /\ "community" \notin Range(before.current_themes)
    /\ interaction_count = before.interaction_count + 1

----------------------------------------------------------------------------
(* C3: the length instruction follows from the visitor interaction count   *)
(* alone: 1 short, 2 and 3 medium, 4 and more long.                        *)
C3_LengthTier ==
    call.op = "generate_response"
    => LET vc == call.visitor_interaction_count
       IN  /\ vc = 1 => length_instruction = ShortInstruction
           /\ vc \in {2, 3} => length_instruction = MediumInstruction
           /\ vc >= 4 => length_instruction = LongInstruction
           /\ context.kind = "normal" => context.length_instruction = length_instruction

\* the upper boundary of the medium tier has been served
C3_Witness ==
    /\ call.op = "generate_response"
    /\ call.visitor_interaction_count = 3
    /\ context.kind = "normal"
    /\ context.length_instruction = MediumInstruction

MoodLabels == {"contemplative_dawn", "receptive_peak", "reflective_afternoon",
               "intimate_evening", "philosophical_night"}

(* C4: at every hour the mood is one of the five labels, and two readings  *)
(* of the same hour give the same mood.                                    *)
C4_MoodTotal ==
    /\ [](hour \in 0..23 /\ current_mood \in MoodLabels)
    /\ [][hour' = hour => current_mood' = current_mood]_vars

\* generate_response has reassigned the mood at a late-evening hour
C4_Witness ==
    /\ call.op = "generate_response"
    /\ hour = 23
    /\ current_mood \in MoodLabels

\* the partition of the day that C5 states
ClaimedMood(h) ==
    IF h \in 6..9 THEN "contemplative_dawn"
    ELSE IF h \in 10..15 THEN "receptive_peak"
    ELSE IF h \in 16..18 THEN "reflective_afternoon"
    ELSE IF h \in 19..23 \/ h \in 0..1 THEN "intimate_evening"
    ELSE "philosophical_night"

(* C5: hours 6..9 give contemplative_dawn, 10..15 receptive_peak, 16..18   *)
(* reflective_afternoon, 19..23 and 0..1 intimate_evening, and only 2..5   *)
(* philosophical_night.                                                    *)
C5_MoodPartition == current_mood = ClaimedMood(hour)

----------------------------------------------------------------------------
(* C1: _build_context returns the fixed safety template exactly when the   *)
(* lower-cased input holds a crisis phrase, whatever the mood, themes,     *)
(* count, state, tone and length instruction; any other input, such as     *)
(* "My bike got stolen", gets the normal prompt.                           *)
C1_SafetyGate ==
    (call.op = "_build_context" /\ pc = "returned")
    => /\ CrisisPhraseIn[call.user_input] => context = SafetyTemplate(call.user_input)
       /\ ~CrisisPhraseIn[call.user_input] => context.kind = "normal"
       /\ call.user_input = MyBike => context.kind = "normal"

\* a crisis phrase typed with capitals, split over two fragments, was gated on a
\* tracker that holds themes
C1_Witness ==
    /\ call.op = "_build_context"
    /\ pc = "returned"
    /\ call.user_input = <<"w","a","n","t"," ","t","o"," ","D","i","e">>
    /\ context.kind = "safety"
    /\ current_themes # <<>>
    /\ call.length_instruction = LongInstruction

(* C8: _extract_themes returns exactly the themes of the table that have a *)
(* keyword in the lower-cased text, each once, in table order.             *)
C8_ExtractThemes ==
    (call.op = "_extract_themes" /\ pc = "returned")
    => /\ potential_themes = InTableOrder(EntriesNamedIn[call.text], 1)
       /\ \A i, j \in 1..Len(potential_themes) :
              i # j => potential_themes[i] # potential_themes[j]

\* one input named two themes
C8_Witness ==
    /\ call.op = "_extract_themes"
    /\ pc = "returned"
    /\ call.text = LoveArt
    /\ potential_themes = <<"attachment", "creativity">>

\* text without the delimiters and without the whitespace the display text may
\* have lost to trimming
Plain(text) == SelectSeq(text, LAMBDA c : c # Star /\ c \notin Whitespace)

\* target is display with the cues put back in, in order, at some positions
RECURSIVE Weaves(_, _, _)
Weaves(display, cues, target) ==
    IF cues = <<>> THEN display = target
    ELSE LET cue == Head(cues)
         IN  \E p \in 0..Len(display) :
                 /\ p + Len(cue) <= Len(target)
                 /\ SubSeq(display, 1, p) = SubSeq(target, 1, p)
                 /\ SubSeq(target, p + 1, p + Len(cue)) = cue
                 /\ Weaves(SubSeq(display, p + 1, Len(display)), Tail(cues),
                           SubSeq(target, p + Len(cue) + 1, Len(target)))

(* C6: putting the extracted cues back into the cleaned display text, in   *)
(* order, gives the response without its asterisks (compared here without  *)
(* whitespace, which the display text is documented to lose by trimming).  *)
C6_RoundTrip ==
    (call.op = "post_process" /\ pc = "returned")
    => Weaves(Plain(clean_text),
              [i \in 1..Len(lighting_cues) |-> Plain(lighting_cues[i])],
              Plain(response))

----------------------------------------------------------------------------
(* C7: within one UI session the interaction count grows by one per        *)
(* visitor turn, so the k-th turn's prompt carries count k.                *)
C7_CountFollowsTurns ==
    (call.op = "generate_response" /\ pc # "stopped")
    => /\ interaction_count = UserTurns(session_state.messages)
       /\ context.kind = "normal"
              => context.interaction_count = UserTurns(session_state.messages)

(* C9: a visitor turn issues at most one request; a turn whose request     *)
(* fails appends the user record and nothing else, so that record stays    *)
(* the last entry of the transcript.                                       *)
C9_FailedTurn ==
    /\ [](requests <= 1)
    /\ [][pc' = "raised"
            => /\ requests' = 1
               /\ session_state'.messages =
                      Append(session_state.messages, UserRecord(call'.user_input))]_vars

\* a turn failed after an earlier turn had been answered
C9_Witness ==
    /\ pc = "raised"
    /\ requests = 1
    /\ Len(session_state.messages) = 3
    /\ session_state.messages[2].role = "assistant"
    /\ session_state.messages[3] = UserRecord(call.user_input)


\* an example prompt is stored in st.session_state
ExamplePending == "example_prompt" \in session_state.keys

(* C11: after the operator clicks an example-prompt button the UI          *)
(* eventually settles: the stored example_prompt is consumed and the       *)
(* script stops asking for reruns. Stated in its weakest reading: once an  *)
(* example prompt is stored, some later script run ends without st.rerun().*)
C11_ExampleSettles == ExamplePending ~> (pc # "rerun")

====
